---- MODULE Spec2Model ----
(***************************************************************************)
(* Model of nethriis/json-parser: the tokenizer (utils/lexer.rs), the      *)
(* recursive-descent parser and the value tree (utils/parser.rs) and the   *)
(* schema / validator engine (utils/validator.rs).                         *)
(*                                                                         *)
(* Representation                                                          *)
(*   String        a sequence of one-character strings                     *)
(*   f64           a fixed-point integer counting 1/Scale units            *)
(*   Option<T>     None, or Some(x)                                        *)
(*   Result<T, E>  Ok(v), or Err(e)                                        *)
(*   OrderedMap<V> [order |-> sequence of keys, map |-> function on keys]  *)
(*   closures      a name from a small set, applied by ApplyFn             *)
(***************************************************************************)
EXTENDS Integers, Sequences, FiniteSets, TLC

VARIABLES
    \* ---- parsing (lib.rs, parser.rs, lexer.rs)
    input,      \* the text handed to JSONParser::from, a sequence of characters
    parsed,     \* NotRun, or the Result of JSONParser::from(input)
    parser,     \* NotRun, or the Parser as parse left it
    doc,        \* NotRun, or the value tree whose text the input was made from
    edit,       \* NotRun, or the change made to that text
    \* ---- tokenizing alone (lexer.rs, Lexer::lex)
    lchars,     \* the characters the Lexer has not consumed
    tokens,     \* the Vec<Token> of Lexer::lex
    lexdone,    \* TRUE once Lexer::lex has returned
    \* ---- an OrderedMap receiving inserts (parser.rs, OrderedMap)
    om,         \* the OrderedMap
    inserts,    \* the insert calls made on it, in order
    \* ---- a schema applied to a tree (validator.rs, JSONSchema)
    schema,     \* the JSONSchema: an OrderedMap of boxed rules
    tree,       \* the caller's JSONValue, borrowed by validate
    result,     \* NotRun, or what the last validate call returned
    calls,      \* the rule methods the last validate call invoked, in order
    op,         \* the caller's last step: "new", "tree" or "validate"
    \* ---- one rule, built and then applied (validator.rs, the six rule kinds)
    rule,       \* the rule under construction / boxed
    nset,       \* number of setter calls made on it
    arg,        \* the value last handed to the rule
    vres,       \* NotRun, or the outcome of rule.validate(FieldName, arg)
    tres,       \* NotRun, or the outcome of rule.transform(FieldName, arg)
    \* ---- two builders receiving the same two setter calls in opposite order
    ab, ba,     \* the two builders
    s1, s2,     \* the two setter calls
    bpc,        \* 0, 1 or 2 setter calls made on each builder
    \* ---- a rule's transform applied twice
    irule,      \* the rule
    iv,         \* the original value
    t1, t2,     \* NotRun, or rule.transform(iv) and rule.transform of its value
    r1, r2      \* NotRun, or schema.validate of {k: iv} and of the tree it returned

parseVars == <<input, parsed, parser, doc, edit>>
lexVars == <<lchars, tokens, lexdone>>
mapVars == <<om, inserts>>
schemaVars == <<schema, tree, result, calls, op>>
ruleVars == <<rule, nset, arg, vres, tres>>
builderVars == <<ab, ba, s1, s2, bpc>>
idemVars == <<irule, iv, t1, t2, r1, r2>>
vars == <<parseVars, lexVars, mapVars, schemaVars, ruleVars, builderVars, idemVars>>

-----------------------------------------------------------------------------
(* Bounds of the model *)

\* f64 values are multiples of 1/Scale
Scale == 2
\* numbers range over -MaxNum .. MaxNum units
MaxNum == 3
\* setter calls made on one rule builder before it is boxed
MaxSetters == 2
\* lexemes in a parsed text
MaxInput == 4
\* insert calls made on one OrderedMap
MaxInserts == 4
\* characters of a text that is tokenized alone
MaxText == 3
\* tokens Lexer::lex collects before the model stops following it
MaxTokens == 4

-----------------------------------------------------------------------------
(* Option and Result *)

None == [some |-> FALSE]
Some(x) == [some |-> TRUE, v |-> x]

Ok(v) == [ok |-> TRUE, val |-> v]
Err(e) == [ok |-> FALSE, err |-> e]
\* the unit value of Result<(), String>
Unit == [type |-> "Unit"]
NotRun == [run |-> FALSE]

\* a formatted error message: the format used, and the arguments put in it (the
\* field name, a number, a string)
Error(kind, key, n, s, sub) == [kind |-> kind, key |-> key, n |-> n, s |-> s, sub |-> sub]

-----------------------------------------------------------------------------
(* JSONValue *)

JString(s) == [type |-> "String", s |-> s]
JNumber(n) == [type |-> "Number", n |-> n]
JBoolean(b) == [type |-> "Boolean", b |-> b]
JNull == [type |-> "Null"]
JArray(items) == [type |-> "Array", items |-> items]
JObject(m) == [type |-> "Object", obj |-> m]

(* OrderedMap *)
OrderedMap_new == [order |-> <<>>, map |-> <<>>]

OrderedMap_contains(self, key) == key \in DOMAIN self.map

\* variant: the key is pushed on every insert
OrderedMap_insert_alwaysPush(self, key, value) ==
    [order |-> Append(self.order, key),
     map |-> [k \in (DOMAIN self.map) \cup {key} |-> IF k = key THEN value ELSE self.map[k]]]

OrderedMap_insert(self, key, value) ==
    [order |-> IF ~OrderedMap_contains(self, key) THEN Append(self.order, key) ELSE self.order,
     map |-> [k \in (DOMAIN self.map) \cup {key} |-> IF k = key THEN value ELSE self.map[k]]]

OrderedMap_get(self, key) ==
    IF key \in DOMAIN self.map THEN Some(self.map[key]) ELSE None

-----------------------------------------------------------------------------
(* str methods used by the String rule *)

IsWhitespace(c) == c = " "

\* variant: one leading whitespace character is removed
str_trim_start_once(s) ==
    IF s # <<>> /\ IsWhitespace(Head(s)) THEN Tail(s) ELSE s

RECURSIVE str_trim_start(_)
str_trim_start(s) ==
    IF s # <<>> /\ IsWhitespace(Head(s)) THEN str_trim_start(Tail(s)) ELSE s

RECURSIVE str_trim_end(_)
str_trim_end(s) ==
    IF s # <<>> /\ IsWhitespace(s[Len(s)]) THEN str_trim_end(SubSeq(s, 1, Len(s) - 1)) ELSE s

str_trim(s) == str_trim_end(str_trim_start(s))

char_to_lowercase(c) == IF c = "A" THEN "a" ELSE IF c = "B" THEN "b" ELSE c
char_to_uppercase(c) == IF c = "a" THEN "A" ELSE IF c = "b" THEN "B" ELSE c

str_to_lowercase(s) == [i \in 1..Len(s) |-> char_to_lowercase(s[i])]
str_to_uppercase(s) == [i \in 1..Len(s) |-> char_to_uppercase(s[i])]

str_starts_with(s, p) == Len(p) <= Len(s) /\ SubSeq(s, 1, Len(p)) = p
str_ends_with(s, p) == Len(p) <= Len(s) /\ SubSeq(s, Len(s) - Len(p) + 1, Len(s)) = p
str_contains(s, p) == \E i \in 0..(Len(s) - Len(p)) : SubSeq(s, i + 1, i + Len(p)) = p

(* f64 methods used by the Number rule, on multiples of 1/Scale *)
f64_floor(n) == (n \div Scale) * Scale
f64_ceil(n) == -(((-n) \div Scale) * Scale)
\* round half away from zero
f64_round(n) ==
    IF n >= 0 THEN ((2 * n + Scale) \div (2 * Scale)) * Scale
    ELSE -(((2 * (-n) + Scale) \div (2 * Scale)) * Scale)
\* fract() is zero exactly on the whole numbers
f64_fract_is_zero(n) == n % Scale = 0

(* Vec::truncate *)
vec_truncate(v, len) == IF len < Len(v) THEN SubSeq(v, 1, len) ELSE v

(* The closures a caller may store in a rule: each is a name, applied here *)
ApplyFn(f, x) ==
    CASE f = "push_a" -> x \o <<"a">>           \* Fn(&str) -> String
      [] f = "add_one" -> x + Scale             \* Fn(f64) -> f64
      [] f = "push_null" -> Append(x, JNull)    \* Fn(Vec<JSONValue>) -> Vec<JSONValue>
      [] f = "negate" -> ~x                     \* Fn(bool) -> bool

-----------------------------------------------------------------------------
(* The six rule kinds: new() and the setters *)

StringType_new ==
    [kind |-> "String", min_length |-> None, max_length |-> None, length |-> None,
     starts_with |-> None, ends_with |-> None, includes |-> None,
     trim |-> FALSE, trim_start |-> FALSE, trim_end |-> FALSE,
     lowercase |-> FALSE, uppercase |-> FALSE, transform |-> None]

NumberType_new ==
    [kind |-> "Number", min |-> None, max |-> None, integer |-> None,
     floor |-> FALSE, ceil |-> FALSE, round |-> FALSE, transform |-> None]

ArrayType_new ==
    [kind |-> "Array", min_length |-> None, max_length |-> None, length |-> None,
     empty |-> None, every |-> None, some |-> None, at |-> None,
     truncate |-> None, transform |-> None]

BooleanType_new == [kind |-> "Boolean", value |-> None, transform |-> None]

ObjectType_new == [kind |-> "Object", rules |-> OrderedMap_new]

NullType_new == [kind |-> "Null"]

\* A setter call is [name, a]: the method and its argument.  Every setter of the
\* String, Number, Array and Boolean builders is `self.<field> = <value>; self`.
\* variant: lt assigns the field gt assigns
SetterField_ltWritesMin(name) ==
    CASE name \in {"gt", "lt"} -> "min"
      [] name = "to_lowercase" -> "lowercase"
      [] name = "to_uppercase" -> "uppercase"
      [] name \in {"truthy", "falsy"} -> "value"
      [] name \in {"transform_str", "transform_num", "transform_arr", "transform_bool"} -> "transform"
      [] OTHER -> name

SetterField(name) ==
    CASE name = "gt" -> "min"
      [] name = "lt" -> "max"
      [] name = "to_lowercase" -> "lowercase"
      [] name = "to_uppercase" -> "uppercase"
      [] name \in {"truthy", "falsy"} -> "value"
      [] name \in {"transform_str", "transform_num", "transform_arr", "transform_bool"} -> "transform"
      [] OTHER -> name

SetterValue(c) ==
    CASE c.name \in {"trim", "trim_start", "trim_end", "to_lowercase", "to_uppercase",
                     "floor", "ceil", "round"} -> TRUE
      [] c.name \in {"integer", "empty", "truthy"} -> Some(TRUE)
      [] c.name = "falsy" -> Some(FALSE)
      [] c.name = "at" -> Some([index |-> c.a.index, rule |-> c.a.rule])
      [] OTHER -> Some(c.a.v)

\* ObjectType::property inserts the child rule into the rule's OrderedMap
ObjectType_property(self, key, r) ==
    [self EXCEPT !.rules = OrderedMap_insert(self.rules, key, r)]

ApplySetter(self, c) ==
    IF c.name = "property" THEN ObjectType_property(self, c.a.key, c.a.rule)
    ELSE [self EXCEPT ![SetterField(c.name)] = SetterValue(c)]

Call(name, a) == [name |-> name, a |-> a]
NoArg == [none |-> TRUE]
Arg(v) == [v |-> v]
-----------------------------------------------------------------------------
(* Validator::validate and Validator::transform of the six rule kinds.       *)
(* Each returns [res, log]: the Result, and the configured checks (or        *)
(* transform actions) that were evaluated before it returned, in order.      *)

Out(res, log) == [res |-> res, log |-> log]

\* variant: the message does not name the field
TypeMismatch_noKey(key, expected) == Error("TypeMismatch", <<>>, 0, <<>>, expected)

\* format!("Type of {} mismatch, expected <Variant>", key)
TypeMismatch(key, expected) == Error("TypeMismatch", key, 0, <<>>, expected)

\* what one `if let Some(..) = self.<check>` block does
Off == [out |-> "off"]              \* the check is not configured
Pass == [out |-> "pass"]            \* falls through to the next block
Fail(e) == [out |-> "err", err |-> e]   \* return Err(e)
ReturnOk == [out |-> "ok"]          \* return Ok(())
Step(name, r) == [name |-> name, r |-> r]

\* the blocks of a validate body in program order: the first that returns ends it
RunChecks(steps) ==
    LET stop == {i \in 1..Len(steps) : steps[i].r.out \in {"err", "ok"}}
        end == IF stop = {} THEN Len(steps)
               ELSE CHOOSE i \in stop : \A j \in stop : i <= j
        ran == SelectSeq([i \in 1..end |-> steps[i]], LAMBDA st : st.r.out # "off")
    IN  Out(IF stop # {} /\ steps[end].r.out = "err" THEN Err(steps[end].r.err) ELSE Ok(Unit),
            [i \in 1..Len(ran) |-> ran[i].name])

StringType_validate(self, key, value) ==
    IF value.type # "String" THEN Out(Err(TypeMismatch(key, "String")), <<>>)
    ELSE LET s == value.s IN RunChecks(<<
        Step("min_length", IF ~self.min_length.some THEN Off
             ELSE IF Len(s) < self.min_length.v
                  THEN Fail(Error("TooShort", key, self.min_length.v, <<>>, "")) ELSE Pass),
        Step("max_length", IF ~self.max_length.some THEN Off
             ELSE IF Len(s) > self.max_length.v
                  THEN Fail(Error("TooLong", key, self.max_length.v, <<>>, "")) ELSE Pass),
        Step("length", IF ~self.length.some THEN Off
             ELSE IF Len(s) # self.length.v
                  THEN Fail(Error("WrongLength", key, self.length.v, <<>>, "")) ELSE Pass),
        Step("starts_with", IF ~self.starts_with.some THEN Off
             ELSE IF ~str_starts_with(s, self.starts_with.v)
                  THEN Fail(Error("NoPrefix", key, 0, self.starts_with.v, "")) ELSE Pass),
        Step("ends_with", IF ~self.ends_with.some THEN Off
             ELSE IF ~str_ends_with(s, self.ends_with.v)
                  THEN Fail(Error("NoSuffix", key, 0, self.ends_with.v, "")) ELSE Pass),
        Step("includes", IF ~self.includes.some THEN Off
             ELSE IF ~str_contains(s, self.includes.v)
                  THEN Fail(Error("NotIncluded", key, 0, self.includes.v, "")) ELSE Pass)
        >>)

\* the names of the transform actions whose `if` block was entered, in program order
ActionsRun(steps) ==
    LET on == SelectSeq(steps, LAMBDA st : st[2]) IN [i \in 1..Len(on) |-> on[i][1]]

StringType_transform(self, key, value) ==
    IF value.type # "String" THEN Out(Err(TypeMismatch(key, "String")), <<>>)
    ELSE LET a0 == value.s
             a1 == IF self.trim THEN str_trim(a0) ELSE a0
             a2 == IF self.trim_start THEN str_trim_start(a1) ELSE a1
             a3 == IF self.trim_end THEN str_trim_end(a2) ELSE a2
             a4 == IF self.lowercase THEN str_to_lowercase(a3) ELSE a3
             a5 == IF self.uppercase THEN str_to_uppercase(a4) ELSE a4
             a6 == IF self.transform.some THEN ApplyFn(self.transform.v, a5) ELSE a5
         IN  Out(Ok(JString(a6)),
                 ActionsRun(<< <<"trim", self.trim>>, <<"trim_start", self.trim_start>>,
                               <<"trim_end", self.trim_end>>, <<"lowercase", self.lowercase>>,
                               <<"uppercase", self.uppercase>>,
                               <<"transform", self.transform.some>> >>))

NumberType_validate(self, key, value) ==
    IF value.type # "Number" THEN Out(Err(TypeMismatch(key, "Number")), <<>>)
    ELSE LET n == value.n IN RunChecks(<<
        Step("min", IF ~self.min.some THEN Off
             ELSE IF n < self.min.v
                  THEN Fail(Error("TooSmall", key, self.min.v, <<>>, "")) ELSE Pass),
        Step("max", IF ~self.max.some THEN Off
             ELSE IF n > self.max.v
                  THEN Fail(Error("TooLarge", key, self.max.v, <<>>, "")) ELSE Pass),
        Step("integer", IF ~self.integer.some THEN Off
             ELSE IF self.integer.v /\ ~f64_fract_is_zero(n)
                  THEN Fail(Error("NotInteger", key, 0, <<>>, "")) ELSE Pass)
        >>)

NumberType_transform(self, key, value) ==
    IF value.type # "Number" THEN Out(Err(TypeMismatch(key, "Number")), <<>>)
    ELSE LET a0 == value.n
             a1 == IF self.floor THEN f64_floor(a0) ELSE a0
             a2 == IF self.ceil THEN f64_ceil(a1) ELSE a1
             a3 == IF self.round THEN f64_round(a2) ELSE a2
             a4 == IF self.transform.some THEN ApplyFn(self.transform.v, a3) ELSE a3
         IN  Out(Ok(JNumber(a4)),
                 ActionsRun(<< <<"floor", self.floor>>, <<"ceil", self.ceil>>,
                               <<"round", self.round>>, <<"transform", self.transform.some>> >>))

BooleanType_validate(self, key, value) ==
    IF value.type # "Boolean" THEN Out(Err(TypeMismatch(key, "Boolean")), <<>>)
    ELSE RunChecks(<<
        Step("value", IF ~self.value.some THEN Off
             ELSE IF value.b # self.value.v
                  THEN Fail(Error("Expected", key, 0, <<>>,
                                  IF self.value.v THEN "true" ELSE "false")) ELSE Pass)
        >>)

BooleanType_transform(self, key, value) ==
    IF value.type # "Boolean" THEN Out(Err(TypeMismatch(key, "Boolean")), <<>>)
    ELSE LET a0 == value.b
             a1 == IF self.transform.some THEN ApplyFn(self.transform.v, a0) ELSE a0
         IN  Out(Ok(JBoolean(a1)), ActionsRun(<< <<"transform", self.transform.some>> >>))

NullType_validate(self, key, value) ==
    IF value.type = "Null" THEN Out(Ok(Unit), <<>>)
    ELSE Out(Err(TypeMismatch(key, "Null")), <<>>)

\* the default method of trait Validator: Ok(value.clone())
Validator_transform(self, key, value) == Out(Ok(value), <<>>)

ArrayType_transform(self, key, value) ==
    IF value.type # "Array" THEN Out(Err(TypeMismatch(key, "Array")), <<>>)
    ELSE LET a0 == value.items
             a1 == IF self.truncate.some THEN vec_truncate(a0, self.truncate.v) ELSE a0
             a2 == IF self.transform.some THEN ApplyFn(self.transform.v, a1) ELSE a1
         IN  Out(Ok(JArray(a2)),
                 ActionsRun(<< <<"truncate", self.truncate.some>>,
                               <<"transform", self.transform.some>> >>))

RECURSIVE Validate(_, _, _)

\* `for item in arr { rule.validate(key, item)?; }`
EveryStep(child, key, arr) ==
    LET bad == {i \in 1..Len(arr) : ~Validate(child, key, arr[i]).res.ok}
    IN  IF bad = {} THEN Pass
        ELSE Fail(Validate(child, key, arr[CHOOSE i \in bad : \A j \in bad : i <= j]).res.err)

\* variant: an empty array has nothing to match and passes
SomeStep_vacuous(child, key, arr) ==
    IF arr = <<>> \/ \E i \in 1..Len(arr) : Validate(child, key, arr[i]).res.ok THEN ReturnOk
    ELSE Fail(Error("NoMatch", key, 0, <<>>, ""))

\* `for item in arr { if rule.validate(key, item).is_ok() { return Ok(()); } }
\*  return Err(..)`
SomeStep(child, key, arr) ==
    IF \E i \in 1..Len(arr) : Validate(child, key, arr[i]).res.ok THEN ReturnOk
    ELSE Fail(Error("NoMatch", key, 0, <<>>, ""))

\* `if let Some(item) = arr.get(*index) { rule.validate(key, item)?; } else { return Err(..) }`
AtStep(index, child, key, arr) ==
    IF index < Len(arr)
    THEN LET r == Validate(child, key, arr[index + 1]).res
         IN  IF r.ok THEN Pass ELSE Fail(r.err)
    ELSE Fail(Error("IndexNotFound", key, index, <<>>, ""))

ArrayType_validate(self, key, value) ==
    IF value.type # "Array" THEN Out(Err(TypeMismatch(key, "Array")), <<>>)
    ELSE LET arr == value.items IN RunChecks(<<
        Step("min_length", IF ~self.min_length.some THEN Off
             ELSE IF Len(arr) < self.min_length.v
                  THEN Fail(Error("TooShort", key, self.min_length.v, <<>>, "")) ELSE Pass),
        Step("max_length", IF ~self.max_length.some THEN Off
             ELSE IF Len(arr) > self.max_length.v
                  THEN Fail(Error("TooLong", key, self.max_length.v, <<>>, "")) ELSE Pass),
        Step("length", IF ~self.length.some THEN Off
             ELSE IF Len(arr) # self.length.v
                  THEN Fail(Error("WrongLength", key, self.length.v, <<>>, "")) ELSE Pass),
        Step("empty", IF ~self.empty.some THEN Off
             ELSE IF self.empty.v /\ Len(arr) = 0
                  THEN Fail(Error("Empty", key, 0, <<>>, "")) ELSE Pass),
        Step("every", IF ~self.every.some THEN Off ELSE EveryStep(self.every.v, key, arr)),
        Step("some", IF ~self.some.some THEN Off ELSE SomeStep(self.some.v, key, arr)),
        Step("at", IF ~self.at.some THEN Off
             ELSE AtStep(self.at.v.index, self.at.v.rule, key, arr))
        >>)

\* variant: a String property is checked after its rule's transform
ObjectType_validate_transformsChild(self, key, value) ==
    IF value.type # "Object" THEN Out(Err(TypeMismatch(key, "Object")), <<>>)
    ELSE LET obj == value.obj
             order == self.rules.order
             Sub(r, k, v) ==
                 IF r.kind = "String" /\ v.type = "String"
                 THEN StringType_transform(r, k, v).res.val ELSE v
             PropErr(i) ==
                 LET got == OrderedMap_get(obj, order[i])
                 IN  IF got.some
                     THEN Validate(self.rules.map[order[i]], order[i],
                                   Sub(self.rules.map[order[i]], order[i], got.v)).res
                     ELSE Err(Error("KeyNotFoundIn", key, 0, order[i], ""))
             bad == {i \in 1..Len(order) : ~PropErr(i).ok}
             end == IF bad = {} THEN Len(order) ELSE CHOOSE i \in bad : \A j \in bad : i <= j
         IN  Out(IF bad = {} THEN Ok(Unit) ELSE PropErr(end),
                 [i \in 1..end |-> order[i]])

\* `for (subkey, rule) in self.rules.iter()`: the first property that is absent
\* or fails its rule ends the loop with its error
ObjectType_validate(self, key, value) ==
    IF value.type # "Object" THEN Out(Err(TypeMismatch(key, "Object")), <<>>)
    ELSE LET obj == value.obj
             order == self.rules.order
             PropErr(i) ==
                 LET got == OrderedMap_get(obj, order[i])
                 IN  IF got.some
                     THEN Validate(self.rules.map[order[i]], order[i], got.v).res
                     ELSE Err(Error("KeyNotFoundIn", key, 0, order[i], ""))
             bad == {i \in 1..Len(order) : ~PropErr(i).ok}
             end == IF bad = {} THEN Len(order) ELSE CHOOSE i \in bad : \A j \in bad : i <= j
         IN  Out(IF bad = {} THEN Ok(Unit) ELSE PropErr(end),
                 [i \in 1..end |-> order[i]])

\* dynamic dispatch through Box<dyn Validator>
Validate(r, key, value) ==
    CASE r.kind = "String" -> StringType_validate(r, key, value)
      [] r.kind = "Number" -> NumberType_validate(r, key, value)
      [] r.kind = "Array" -> ArrayType_validate(r, key, value)
      [] r.kind = "Boolean" -> BooleanType_validate(r, key, value)
      [] r.kind = "Object" -> ObjectType_validate(r, key, value)
      [] r.kind = "Null" -> NullType_validate(r, key, value)

Transform(r, key, value) ==
    CASE r.kind = "String" -> StringType_transform(r, key, value)
      [] r.kind = "Number" -> NumberType_transform(r, key, value)
      [] r.kind = "Array" -> ArrayType_transform(r, key, value)
      [] r.kind = "Boolean" -> BooleanType_transform(r, key, value)
      [] r.kind \in {"Object", "Null"} -> Validator_transform(r, key, value)
-----------------------------------------------------------------------------
(* JSONSchema *)

RECURSIVE NewLoop(_, _, _)
NewLoop(rules, ordered_rules, i) ==
    IF i > Len(rules) THEN ordered_rules
    ELSE NewLoop(rules, OrderedMap_insert(ordered_rules, rules[i].key, rules[i].rule), i + 1)

\* JSONSchema::new(rules): rules is a sequence of [key, rule]
JSONSchema_new(rules) == [rules |-> NewLoop(rules, OrderedMap_new, 1)]

RuleCall(name, key, on) == [op |-> name, key |-> key, on |-> on]

\* The loop of JSONSchema::transform.  obj is the borrowed object, transformed
\* its clone; the inserts go to the clone.  Returns the Result, the rule methods
\* invoked and the borrowed object as the loop leaves it.
RECURSIVE TransformLoop(_, _, _, _, _)
TransformLoop(self, obj, transformed, i, log) ==
    IF i > Len(self.rules.order)
    THEN [res |-> Ok(JObject(transformed)), calls |-> log, borrowed |-> JObject(obj)]
    ELSE LET key == self.rules.order[i]
             got == OrderedMap_get(obj, key)
         IN  IF ~got.some THEN TransformLoop(self, obj, transformed, i + 1, log)
             ELSE LET t == Transform(self.rules.map[key], key, got.v).res
                      log2 == Append(log, RuleCall("transform", key, got.v))
                  IN  IF ~t.ok
                      THEN [res |-> Err(t.err), calls |-> log2, borrowed |-> JObject(obj)]
                      ELSE TransformLoop(self, obj, OrderedMap_insert(transformed, key, t.val),
                                         i + 1, log2)

\* variant: the returned object starts empty instead of as a clone
JSONSchema_transform_fromEmpty(self, value) ==
    IF value.type # "Object"
    THEN [res |-> Err(Error("NotObjectForTransformation", <<>>, 0, <<>>, "")),
          calls |-> <<>>, borrowed |-> value]
    ELSE TransformLoop(self, value.obj, OrderedMap_new, 1, <<>>)

\* variant: the inserts go through to the borrowed object
JSONSchema_transform_inplace(self, value) ==
    IF value.type # "Object"
    THEN [res |-> Err(Error("NotObjectForTransformation", <<>>, 0, <<>>, "")),
          calls |-> <<>>, borrowed |-> value]
    ELSE LET r == TransformLoop(self, value.obj, value.obj, 1, <<>>)
         IN  [r EXCEPT !.borrowed = IF r.res.ok THEN r.res.val ELSE r.borrowed]

JSONSchema_transform(self, value) ==
    IF value.type # "Object"
    THEN [res |-> Err(Error("NotObjectForTransformation", <<>>, 0, <<>>, "")),
          calls |-> <<>>, borrowed |-> value]
    ELSE TransformLoop(self, value.obj, value.obj, 1, <<>>)

\* variant: a key absent from the object is skipped, as the transform pass does
RECURSIVE ValidateLoop_skipAbsent(_, _, _, _)
ValidateLoop_skipAbsent(self, obj, i, log) ==
    IF i > Len(self.rules.order) THEN [res |-> Ok(JObject(obj)), calls |-> log]
    ELSE LET key == self.rules.order[i]
             got == OrderedMap_get(obj, key)
         IN  IF ~got.some THEN ValidateLoop_skipAbsent(self, obj, i + 1, log)
             ELSE LET v == Validate(self.rules.map[key], key, got.v).res
                      log2 == Append(log, RuleCall("validate", key, got.v))
                  IN  IF ~v.ok THEN [res |-> Err(v.err), calls |-> log2]
                      ELSE ValidateLoop_skipAbsent(self, obj, i + 1, log2)

\* The loop of JSONSchema::validate over the transformed object
RECURSIVE ValidateLoop(_, _, _, _)
ValidateLoop(self, obj, i, log) ==
    IF i > Len(self.rules.order) THEN [res |-> Ok(JObject(obj)), calls |-> log]
    ELSE LET key == self.rules.order[i]
             got == OrderedMap_get(obj, key)
         IN  IF ~got.some
             THEN [res |-> Err(Error("KeyNotFound", key, 0, <<>>, "")), calls |-> log]
             ELSE LET v == Validate(self.rules.map[key], key, got.v).res
                      log2 == Append(log, RuleCall("validate", key, got.v))
                  IN  IF ~v.ok THEN [res |-> Err(v.err), calls |-> log2]
                      ELSE ValidateLoop(self, obj, i + 1, log2)

\* variant: the validate pass is run on the caller's value
ValidatePassInput_original(value, transformed) == value

\* what the validate pass is run on: the value the transform pass returned
ValidatePassInput(value, transformed) == transformed

\* variant: the checks run first, on the caller's value, and the transform after
JSONSchema_validate_checksFirst(self, value) ==
    LET v == IF value.type = "Object" THEN ValidateLoop(self, value.obj, 1, <<>>)
             ELSE [res |-> Err(Error("NotObjectForValidation", <<>>, 0, <<>>, "")),
                   calls |-> <<>>]
        t == JSONSchema_transform(self, value)
    IN  IF ~v.res.ok THEN [res |-> v.res, calls |-> v.calls, borrowed |-> value]
        ELSE [res |-> t.res, calls |-> v.calls \o t.calls, borrowed |-> t.borrowed]

JSONSchema_validate(self, value) ==
    LET t == JSONSchema_transform(self, value)
    IN  IF ~t.res.ok THEN t
        ELSE LET on == ValidatePassInput(value, t.res.val)
                 v == IF on.type = "Object" THEN ValidateLoop(self, on.obj, 1, t.calls)
                      ELSE [res |-> Err(Error("NotObjectForValidation", <<>>, 0, <<>>, "")),
                            calls |-> t.calls]
             IN  [res |-> IF v.res.ok THEN Ok(t.res.val) ELSE v.res,
                  calls |-> v.calls, borrowed |-> t.borrowed]
-----------------------------------------------------------------------------
(* The caller's side: the rules, schemas and trees the model draws from *)

\* whole and fractional f64 values
Whole(k) == k * Scale
Frac(k) == k * Scale + 1

\* boxed rules put in a schema, each written as the caller's chain of setters
BoxedRules == <<
    ApplySetter(ApplySetter(StringType_new, Call("max_length", Arg(2))), Call("trim", NoArg)),
    ApplySetter(ApplySetter(StringType_new, Call("starts_with", Arg(<<"A">>))),
                Call("to_uppercase", NoArg)),
    ApplySetter(StringType_new, Call("min_length", Arg(2))),
    ApplySetter(ApplySetter(NumberType_new, Call("integer", NoArg)), Call("floor", NoArg)),
    ApplySetter(NumberType_new, Call("gt", Arg(Whole(1)))),
    ApplySetter(ApplySetter(ArrayType_new, Call("max_length", Arg(1))),
                Call("truncate", Arg(1))),
    ApplySetter(BooleanType_new, Call("truthy", NoArg)),
    ObjectType_new,
    NullType_new
    >>

\* the values put in a tree's fields
FieldValues == <<
    JString(<<"a", "b">>), JString(<<" ", "a", "b">>), JString(<<"a">>),
    JNumber(Whole(1)), JNumber(Frac(2)),
    JArray(<<JNumber(Whole(1)), JNull>>),
    JBoolean(TRUE), JNull
    >>

Keys == {<<"a">>, <<"b">>}

\* JSONSchema::new over every list of (key, rule) pairs
SchemaLists ==
    UNION {{[i \in 1..n |-> [key |-> ks[i], rule |-> BoxedRules[rs[i]]]] :
              ks \in [1..n -> Keys], rs \in [1..n -> 1..Len(BoxedRules)]} :
           n \in 0..Cardinality(Keys)}

RECURSIVE InsertAll(_, _, _)
InsertAll(m, entries, i) ==
    IF i > Len(entries) THEN m
    ELSE InsertAll(OrderedMap_insert(m, entries[i].key, entries[i].value), entries, i + 1)

\* the objects a caller builds by inserting fields, as Parser::parse_object does
Objects ==
    UNION {{JObject(InsertAll(OrderedMap_new,
                              [i \in 1..n |-> [key |-> ks[i], value |-> FieldValues[vs[i]]]], 1)) :
              ks \in [1..n -> Keys], vs \in [1..n -> 1..Len(FieldValues)]} :
           n \in 0..Cardinality(Keys)}

Trees == Objects \cup {JNull, JArray(<<>>)}

-----------------------------------------------------------------------------
(* Specification Spec: a schema is built once and applied to a tree *)

IdleText ==
    /\ input = <<>> /\ parsed = NotRun /\ parser = NotRun /\ doc = NotRun /\ edit = NotRun
IdleLex == lchars = <<>> /\ tokens = <<>> /\ lexdone = FALSE
IdleMap == om = OrderedMap_new /\ inserts = <<>>
IdleParse == IdleText /\ IdleLex /\ IdleMap
IdleSchema ==
    /\ schema = JSONSchema_new(<<>>) /\ tree = JNull /\ result = NotRun
    /\ calls = <<>> /\ op = "new"
IdleRule == rule = NullType_new /\ nset = 0 /\ arg = JNull /\ vres = NotRun /\ tres = NotRun
IdleBuilder ==
    /\ ab = NullType_new /\ ba = NullType_new /\ s1 = NoArg /\ s2 = NoArg /\ bpc = 0
IdleIdem ==
    /\ irule = NullType_new /\ iv = JNull /\ t1 = NotRun /\ t2 = NotRun
    /\ r1 = NotRun /\ r2 = NotRun

Init ==
    /\ \E l \in SchemaLists : schema = JSONSchema_new(l)
    /\ tree \in Trees
    /\ result = NotRun
    /\ calls = <<>>
    /\ op = "new"
    /\ IdleParse /\ IdleRule /\ IdleBuilder /\ IdleIdem

\* schema.validate(&tree)
SchemaValidate ==
    LET out == JSONSchema_validate(schema, tree)
    IN  /\ result' = out.res
        /\ calls' = out.calls
        /\ tree' = out.borrowed
        /\ op' = "validate"
        /\ UNCHANGED <<schema, parseVars, lexVars, mapVars, ruleVars, builderVars, idemVars>>

Next == SchemaValidate

Spec == Init /\ [][Next]_vars
-----------------------------------------------------------------------------
(* Properties of JSONSchema::validate, checked under Spec *)

Validated == op = "validate" /\ tree.type = "Object"
RuleOf(k) == schema.rules.map[k]
Declared == DOMAIN schema.rules.map
Present == DOMAIN tree.obj.map
\* position of a declared key in the schema's insertion order
Pos(k) == CHOOSE i \in 1..Len(schema.rules.order) : schema.rules.order[i] = k
\* the rule's transform of the caller's field, and its validate of that transform
FieldT(k) == Transform(RuleOf(k), k, tree.obj.map[k]).res
FieldV(k) == Validate(RuleOf(k), k, FieldT(k).val).res
FirstOf(S) == CHOOSE k \in S : \A j \in S : Pos(k) <= Pos(j)
TransformFails == {k \in Declared \cap Present : ~FieldT(k).ok}
\* the declared keys the validate pass stops at: absent, or failing a check
ValidateFails == {k \in Declared : k \notin Present \/ ~FieldV(k).ok}

\* C2: the validate pass runs after the transform pass, on the transformed values:
\* every rule.validate call made by JSONSchema::validate receives
\* rule.transform(original field), the outcome is decided by the checks on the
\* transformed values alone, and the value returned on success holds them.
C2_ValidateAfterTransform ==
    Validated =>
        /\ \A i \in 1..Len(calls) :
              calls[i].op = "validate" =>
                  /\ calls[i].key \in Present
                  /\ FieldT(calls[i].key).ok
                  /\ calls[i].on = FieldT(calls[i].key).val
                  /\ \A j \in 1..Len(calls) : calls[j].op = "transform" => j < i
        /\ result.ok <=> (TransformFails = {} /\ ValidateFails = {})
        /\ result.ok => \A k \in Declared : result.val.obj.map[k] = FieldT(k).val

\* a check the original field violates and the transformed field satisfies went unreported
C2_Witness ==
    /\ Validated /\ result.ok
    /\ \E k \in Declared :
          /\ ~Validate(RuleOf(k), k, tree.obj.map[k]).res.ok
          /\ result.val.obj.map[k] # tree.obj.map[k]

\* C3: a transform error of a present field has priority: the error returned is
\* that of the first field (schema order) whose transform fails, whatever the
\* fields declared before it; without one, it is the first validate-pass error.
C3_TransformErrorsFirst ==
    Validated =>
        /\ TransformFails # {} =>
              result = Err(FieldT(FirstOf(TransformFails)).err)
        /\ (TransformFails = {} /\ ValidateFails # {}) =>
              LET k == FirstOf(ValidateFails)
              IN  result = IF k \notin Present THEN Err(Error("KeyNotFound", k, 0, <<>>, ""))
                           ELSE Err(FieldV(k).err)

\* a transform error was returned although an earlier field is absent or fails a check
C3_Witness ==
    /\ Validated /\ TransformFails # {}
    /\ result = Err(FieldT(FirstOf(TransformFails)).err)
    /\ \E k \in Declared :
          /\ Pos(k) < Pos(FirstOf(TransformFails))
          /\ \/ k \notin Present
             \/ FieldT(k).ok /\ ~FieldV(k).ok

Invoked(k) == \E i \in 1..Len(calls) : calls[i].key = k

\* C4 as stated: an object lacking a declared key fails with "key not found"
\* naming a key it lacks, and the rule of a lacking key is never invoked.
C4_Original ==
    (Validated /\ Declared \ Present # {}) =>
        /\ \E k \in Declared \ Present : result = Err(Error("KeyNotFound", k, 0, <<>>, ""))
        /\ \A k \in Declared \ Present : ~Invoked(k)

\* C4 amended: an object lacking a declared key always fails and the key's rule
\* is never invoked; the error is "key not found" naming that key when no present
\* field fails its transform and every field declared before it is present and
\* passes its checks.
C4_MissingKeyFails ==
    Validated =>
        \A k \in Declared \ Present :
            /\ ~result.ok
            /\ ~Invoked(k)
            /\ (TransformFails = {} /\ FirstOf(ValidateFails) = k) =>
                  result = Err(Error("KeyNotFound", k, 0, <<>>, ""))

\* "key not found" was returned after another field's rule had run
C4_Witness ==
    /\ Validated
    /\ \E k \in Declared \ Present :
          /\ result = Err(Error("KeyNotFound", k, 0, <<>>, ""))
          /\ ~Invoked(k)
          /\ \E j \in Declared : j # k /\ Invoked(j)

\* C5: a validate call leaves the caller's tree and the schema as they were, and
\* a second call on them returns what the first returned.
C5_ValidateMutatesNothing ==
    [][op' = "validate" =>
          /\ tree' = tree
          /\ schema' = schema
          /\ (op = "validate" => result' = result /\ calls' = calls)]_vars

\* validate returned a tree that differs from the caller's, which is unchanged
C5_Witness ==
    /\ Validated /\ result.ok /\ result.val # tree
    /\ \E k \in Declared : FieldT(k).val # tree.obj.map[k] /\ result.val.obj.map[k] = FieldT(k).val

\* C21: on success the returned Object has exactly the keys of the input object,
\* in the same iteration order; a field without rule in the schema equals its
\* input value, and a field with a rule equals that rule's transform of its
\* input value.
C21_ReturnedObjectFrame ==
    (Validated /\ result.ok) =>
        /\ result.val.type = "Object"
        /\ result.val.obj.order = tree.obj.order
        /\ DOMAIN result.val.obj.map = Present
        /\ \A k \in Present :
              result.val.obj.map[k] = IF k \in Declared THEN FieldT(k).val
                                      ELSE tree.obj.map[k]

\* a two-field object passed: one field has no rule and stands first, the other
\* was changed by its rule's transform
C21_Witness ==
    /\ Validated /\ result.ok /\ Len(tree.obj.order) = 2
    /\ tree.obj.order[1] \notin Declared
    /\ tree.obj.order[2] \in Declared
    /\ result.val.obj.map[tree.obj.order[2]] # tree.obj.map[tree.obj.order[2]]
-----------------------------------------------------------------------------
(* Specification SpecRule: one rule is configured by setter calls, boxed, and *)
(* its validate and transform are called on values of every variant          *)

\* the name a rule is applied under
FieldName == <<"k">>

\* child rules handed to every / some / at / property
ChildRules == <<
    NumberType_new,
    StringType_new,
    ApplySetter(NumberType_new, Call("gt", Arg(Whole(1)))),
    ApplySetter(ApplySetter(StringType_new, Call("trim", NoArg)), Call("max_length", Arg(1)))
    >>

Lengths == <<1, 2>>
Indexes == <<0, 1>>
Affixes == << <<"a">>, <<"A">> >>
NumberArgs == <<Whole(0), Whole(1)>>

\* the sequence of <<x, y>> for x in xs, y in ys
Pairs(xs, ys) ==
    [i \in 1..(Len(xs) * Len(ys)) |->
        <<xs[((i - 1) \div Len(ys)) + 1], ys[((i - 1) % Len(ys)) + 1]>>]

WithArg(name, v) == Call(name, Arg(v))
Flag(name) == Call(name, NoArg)
AtCall(i, r) == Call("at", [index |-> i, rule |-> r])
PropertyCall(k, r) == Call("property", [key |-> k, rule |-> r])

WithArgs(names, args) ==
    LET ps == Pairs(names, args) IN [i \in 1..Len(ps) |-> WithArg(ps[i][1], ps[i][2])]
AtCalls(indexes, rules) ==
    LET ps == Pairs(indexes, rules) IN [i \in 1..Len(ps) |-> AtCall(ps[i][1], ps[i][2])]
PropertyCalls(keys, rules) ==
    LET ps == Pairs(keys, rules)
    IN  [i \in 1..Len(ps) |-> PropertyCall(ps[i][1], ps[i][2])]

\* the setter calls a caller can make on a builder of each kind
StringCalls ==
    WithArgs(<<"min_length", "max_length", "length">>, Lengths)
    \o WithArgs(<<"starts_with", "ends_with", "includes">>, Affixes)
    \o <<Flag("trim"), Flag("trim_start"), Flag("trim_end"),
         Flag("to_lowercase"), Flag("to_uppercase"),
         WithArg("transform_str", "push_a")>>

NumberCalls ==
    WithArgs(<<"gt", "lt">>, NumberArgs)
    \o <<Flag("integer"), Flag("floor"), Flag("ceil"), Flag("round"),
         WithArg("transform_num", "add_one")>>

ArrayCalls ==
    WithArgs(<<"min_length", "max_length", "length">>, Lengths)
    \o WithArgs(<<"every", "some">>, ChildRules)
    \o AtCalls(Indexes, ChildRules)
    \o WithArgs(<<"truncate">>, Indexes)
    \o <<Flag("empty"), WithArg("transform_arr", "push_null")>>

BooleanCalls == <<Flag("truthy"), Flag("falsy"), WithArg("transform_bool", "negate")>>

ObjectCalls == PropertyCalls(<< <<"a">>, <<"b">> >>, ChildRules)

SetterCalls(kind) ==
    CASE kind = "String" -> StringCalls
      [] kind = "Number" -> NumberCalls
      [] kind = "Array" -> ArrayCalls
      [] kind = "Boolean" -> BooleanCalls
      [] kind = "Object" -> ObjectCalls
      [] kind = "Null" -> <<>>

NewRules == <<StringType_new, NumberType_new, ArrayType_new, BooleanType_new,
              ObjectType_new, NullType_new>>

\* the values a rule is applied to
RuleValues ==
    << JString(<<>>), JString(<<"a">>), JString(<<"A">>), JString(<<" ">>),
       JString(<<"a", "A">>), JString(<<" ", "a">>), JString(<<"a", " ">>),
       JString(<<" ", "A", " ">>), JString(<<"A", "a", "a">>),
       JString(<<" ", " ", "a">>) >>
    \o [i \in 1..(2 * MaxNum + 1) |-> JNumber(i - MaxNum - 1)]
    \o << JBoolean(TRUE), JBoolean(FALSE), JNull,
          JArray(<<>>), JArray(<<JNumber(Whole(2))>>), JArray(<<JString(<<"a">>)>>),
          JArray(<<JNumber(Whole(1)), JString(<<"a">>)>>),
          JArray(<<JString(<<"a">>), JNumber(Whole(2))>>),
          JArray(<<JNull, JNumber(Whole(0)), JNumber(Whole(2))>>),
          JArray(<<JString(<<" ", "a">>)>>),
          JObject(OrderedMap_new),
          JObject(OrderedMap_insert(OrderedMap_new, <<"a">>, JNumber(Whole(2)))),
          JObject(OrderedMap_insert(OrderedMap_new, <<"a">>, JString(<<" ", "a">>))),
          JObject(OrderedMap_insert(OrderedMap_insert(OrderedMap_new, <<"b">>, JString(<<"a">>)),
                                    <<"a">>, JNumber(Whole(0)))) >>

InitRule ==
    /\ \E i \in 1..Len(NewRules) : rule = NewRules[i]
    /\ nset = 0
    /\ arg = JNull
    /\ vres = NotRun
    /\ tres = NotRun
    /\ IdleParse /\ IdleSchema /\ IdleBuilder /\ IdleIdem

\* one chained setter call on the builder, before boxed() hands it over
Setter ==
    /\ nset < MaxSetters
    /\ vres = NotRun /\ tres = NotRun
    /\ \E i \in 1..Len(SetterCalls(rule.kind)) :
          rule' = ApplySetter(rule, SetterCalls(rule.kind)[i])
    /\ nset' = nset + 1
    /\ UNCHANGED <<arg, vres, tres, parseVars, lexVars, mapVars, schemaVars, builderVars, idemVars>>

\* boxed rule.validate(FieldName, v), on one value per behaviour
RuleValidate ==
    /\ vres = NotRun /\ tres = NotRun
    /\ \E i \in 1..Len(RuleValues) :
          /\ arg' = RuleValues[i]
          /\ vres' = Validate(rule, FieldName, RuleValues[i])
    /\ tres' = NotRun
    /\ UNCHANGED <<rule, nset, parseVars, lexVars, mapVars, schemaVars, builderVars, idemVars>>

\* boxed rule.transform(FieldName, v), on one value per behaviour
RuleTransform ==
    /\ vres = NotRun /\ tres = NotRun
    /\ \E i \in 1..Len(RuleValues) :
          /\ arg' = RuleValues[i]
          /\ tres' = Transform(rule, FieldName, RuleValues[i])
    /\ vres' = NotRun
    /\ UNCHANGED <<rule, nset, parseVars, lexVars, mapVars, schemaVars, builderVars, idemVars>>

NextRule == Setter \/ RuleValidate \/ RuleTransform

SpecRule == InitRule /\ [][NextRule]_vars

\* the rule is an ObjectType with the one property k
OneProperty(k) == rule.kind = "Object" /\ rule.rules.order = <<k>>

\* the rule is an ArrayType whose only configured field is `field`
ArrayWithOnly(field) ==
    /\ rule.kind = "Array" /\ rule[field].some
    /\ \A f \in {"min_length", "max_length", "length", "empty", "every", "some", "at",
                  "truncate", "transform"} \ {field} : ~rule[f].some

Failing(child) ==
    {i \in 1..Len(arg.items) : ~Validate(child, FieldName, arg.items[i]).res.ok}
Passing(child) == (1..Len(arg.items)) \ Failing(child)
Lowest(S) == CHOOSE i \in S : \A j \in S : i <= j

\* C18: with every(r) alone, validate of an array is Ok iff all its elements pass
\* r (so on an empty array) and is otherwise the error of the failing element of
\* lowest index; with some(r) alone, it is Ok iff an element passes r and is
\* otherwise the "no items match" error, so on an empty array.
C18_ArrayQuantifiers ==
    (vres # NotRun /\ rule.kind = "Array" /\ arg.type = "Array") =>
        /\ ArrayWithOnly("every") =>
              vres.res = IF Failing(rule.every.v) = {} THEN Ok(Unit)
                         ELSE Validate(rule.every.v, FieldName,
                                       arg.items[Lowest(Failing(rule.every.v))]).res
        /\ ArrayWithOnly("some") =>
              vres.res = IF Passing(rule.some.v) # {} THEN Ok(Unit)
                         ELSE Err(Error("NoMatch", FieldName, 0, <<>>, ""))

\* every(r) met an array whose first element passes r and a later one does not
C18_Witness ==
    /\ vres # NotRun /\ ArrayWithOnly("every") /\ arg.type = "Array"
    /\ Failing(rule.every.v) # {} /\ 1 \in Passing(rule.every.v)
    /\ ~vres.res.ok

\* C6: the Number bounds are exclusive: with gt(m) every n <= m is rejected, with
\* lt(M) every n >= M is rejected.
C6_BoundsExclusive ==
    (vres # NotRun /\ rule.kind = "Number" /\ arg.type = "Number") =>
        /\ (rule.min.some /\ arg.n <= rule.min.v) => ~vres.res.ok
        /\ (rule.max.some /\ arg.n >= rule.max.v) => ~vres.res.ok

\* C7: ArrayType::validate returns Ok only if every configured check passes: with
\* some and at both configured, a violated at check makes it fail.
AtViolated(r, v) ==
    \/ r.at.v.index >= Len(v.items)
    \/ ~Validate(r.at.v.rule, FieldName, v.items[r.at.v.index + 1]).res.ok

C7_AllChecksEvaluated ==
    (vres # NotRun /\ rule.kind = "Array" /\ arg.type = "Array"
        /\ rule.some.some /\ rule.at.some /\ AtViolated(rule, arg)) =>
        ~vres.res.ok

\* C8: a value of another variant gets the type-mismatch error naming the field
\* from validate of all six kinds, and from transform of the String, Number,
\* Array and Boolean kinds, whatever is configured, and no check or transform
\* action (custom function included) is evaluated.
C8_TypeMismatchFirst ==
    /\ (vres # NotRun /\ arg.type # rule.kind) =>
          vres = Out(Err(Error("TypeMismatch", FieldName, 0, <<>>, rule.kind)), <<>>)
    /\ (tres # NotRun /\ arg.type # rule.kind
          /\ rule.kind \in {"String", "Number", "Array", "Boolean"}) =>
          tres = Out(Err(Error("TypeMismatch", FieldName, 0, <<>>, rule.kind)), <<>>)

\* a rule with a check that the value would fail, were it evaluated, returned
\* the type mismatch
C8_Witness ==
    /\ vres # NotRun /\ arg.type # rule.kind
    /\ rule.kind = "Array" /\ rule.min_length.some /\ rule.every.some
    /\ ~vres.res.ok /\ vres.res.err.kind = "TypeMismatch" /\ vres.log = <<>>
-----------------------------------------------------------------------------
(* Specification SpecBuilder: two builders get the same two setter calls, in  *)
(* opposite orders                                                            *)

\* the builders the calls are made on: fresh ones and configured ones
Builders == NewRules \o SubSeq(BoxedRules, 1, 7)

InitBuilder ==
    /\ \E b \in 1..Len(Builders) :
          /\ ab = Builders[b]
          /\ ba = Builders[b]
          /\ \E i, j \in 1..Len(SetterCalls(Builders[b].kind)) :
                /\ s1 = SetterCalls(Builders[b].kind)[i]
                /\ s2 = SetterCalls(Builders[b].kind)[j]
    /\ bpc = 0
    /\ IdleParse /\ IdleSchema /\ IdleRule /\ IdleIdem

\* builder.s1() on one, builder.s2() on the other
FirstCall ==
    /\ bpc = 0
    /\ ab' = ApplySetter(ab, s1)
    /\ ba' = ApplySetter(ba, s2)
    /\ bpc' = 1
    /\ UNCHANGED <<s1, s2, parseVars, lexVars, mapVars, schemaVars, ruleVars, idemVars>>

\* ... .s2() on the first, .s1() on the second
SecondCall ==
    /\ bpc = 1
    /\ ab' = ApplySetter(ab, s2)
    /\ ba' = ApplySetter(ba, s1)
    /\ bpc' = 2
    /\ UNCHANGED <<s1, s2, parseVars, lexVars, mapVars, schemaVars, ruleVars, idemVars>>

NextBuilder == FirstCall \/ SecondCall

SpecBuilder == InitBuilder /\ [][NextBuilder]_vars

\* the two rules validate and transform every value alike
SameBehaviour(x, y) ==
    \A i \in 1..Len(RuleValues) :
        /\ Validate(x, FieldName, RuleValues[i]).res = Validate(y, FieldName, RuleValues[i]).res
        /\ Transform(x, FieldName, RuleValues[i]).res = Transform(y, FieldName, RuleValues[i]).res

\* C9 as stated: any two setter calls on a builder give the same rule in either order.
C9_Original == bpc = 2 => SameBehaviour(ab, ba)

\* C9 amended: calls of two different setter methods, other than truthy() and
\* falsy(), give a rule of the same behaviour in either order.  (Two calls that
\* assign the same field are last-call-wins.)
DifferentFields ==
    /\ s1.name # s2.name
    /\ {s1.name, s2.name} # {"truthy", "falsy"}

C9_DifferentSettersCommute ==
    (bpc = 2 /\ DifferentFields) => SameBehaviour(ab, ba)

\* gt and lt were called in both orders on a Number builder
C9_Witness ==
    /\ bpc = 2 /\ s1.name = "gt" /\ s2.name = "lt"
    /\ ab.min = Some(s1.a.v) /\ ab.max = Some(s2.a.v) /\ ab = ba

-----------------------------------------------------------------------------
(* Specification SpecIdem: a rule without custom function transforms a value, *)
(* and then the value it returned; a one-field schema of it validates a tree, *)
(* and then the tree it returned                                              *)

RECURSIVE ApplyAll(_, _, _)
ApplyAll(self, cs, i) ==
    IF i > Len(cs) THEN self ELSE ApplyAll(ApplySetter(self, cs[i]), cs, i + 1)

\* the i-th subsequence of cs, by the bits of i
RECURSIVE Subseq(_, _)
Subseq(cs, i) ==
    IF cs = <<>> THEN <<>>
    ELSE (IF i % 2 = 1 THEN <<Head(cs)>> ELSE <<>>) \o Subseq(Tail(cs), i \div 2)

\* 2^n
RECURSIVE Pow2(_)
Pow2(n) == IF n = 0 THEN 1 ELSE 2 * Pow2(n - 1)

\* every combination of the calls of `flags`, followed by one of `checks`
Combos(new, flags, checks) ==
    LET ps == Pairs([i \in 1..Pow2(Len(flags)) |-> Subseq(flags, i - 1)], checks)
    IN  [i \in 1..Len(ps) |-> ApplyAll(new, ps[i][1] \o ps[i][2], 1)]

IdemRules ==
    Combos(StringType_new,
           <<Flag("trim"), Flag("trim_start"), Flag("trim_end"),
             Flag("to_lowercase"), Flag("to_uppercase")>>,
           << <<>>, <<WithArg("max_length", 2)>>, <<WithArg("starts_with", <<"A">>)>>,
              <<WithArg("includes", <<"a">>)>> >>)
    \o Combos(NumberType_new,
              <<Flag("floor"), Flag("ceil"), Flag("round")>>,
              << <<>>, <<WithArg("gt", Whole(0))>>, <<Flag("integer")>> >>)
    \o Combos(ArrayType_new,
              <<>>,
              << <<>>, <<WithArg("truncate", 0)>>, <<WithArg("truncate", 1)>>,
                 <<WithArg("truncate", 2)>>,
                 <<WithArg("truncate", 1), WithArg("max_length", 1)>>,
                 <<WithArg("truncate", 2), WithArg("every", NumberType_new)>> >>)
    \o <<BooleanType_new, ApplySetter(BooleanType_new, Flag("truthy")),
         ObjectType_new, NullType_new>>

IdemSchema == JSONSchema_new(<<[key |-> FieldName, rule |-> irule]>>)
IdemTree == JObject(OrderedMap_insert(OrderedMap_new, FieldName, iv))

InitIdem ==
    /\ \E i \in 1..Len(IdemRules) : irule = IdemRules[i]
    /\ \E i \in 1..Len(RuleValues) : iv = RuleValues[i]
    /\ t1 = NotRun /\ t2 = NotRun /\ r1 = NotRun /\ r2 = NotRun
    /\ IdleParse /\ IdleSchema /\ IdleRule /\ IdleBuilder

\* rule.transform(FieldName, &v)
TransformOnce ==
    /\ t1 = NotRun
    /\ t1' = Transform(irule, FieldName, iv).res
    /\ UNCHANGED <<irule, iv, t2, r1, r2, parseVars, lexVars, mapVars, schemaVars, ruleVars, builderVars>>

\* rule.transform(FieldName, &returned)
TransformAgain ==
    /\ t1 # NotRun /\ t1.ok /\ t2 = NotRun
    /\ t2' = Transform(irule, FieldName, t1.val).res
    /\ UNCHANGED <<irule, iv, t1, r1, r2, parseVars, lexVars, mapVars, schemaVars, ruleVars, builderVars>>

\* schema.validate(&tree)
ValidateOnce ==
    /\ r1 = NotRun
    /\ r1' = JSONSchema_validate(IdemSchema, IdemTree).res
    /\ UNCHANGED <<irule, iv, t1, t2, r2, parseVars, lexVars, mapVars, schemaVars, ruleVars, builderVars>>

\* schema.validate(&returned)
ValidateAgain ==
    /\ r1 # NotRun /\ r1.ok /\ r2 = NotRun
    /\ r2' = JSONSchema_validate(IdemSchema, r1.val).res
    /\ UNCHANGED <<irule, iv, t1, t2, r1, parseVars, lexVars, mapVars, schemaVars, ruleVars, builderVars>>

NextIdem == TransformOnce \/ TransformAgain \/ ValidateOnce \/ ValidateAgain

SpecIdem == InitIdem /\ [][NextIdem]_vars

\* C10: without a custom function, transforming the value a transform returned
\* returns it unchanged, and validating the tree a successful validate returned
\* succeeds and returns an equal tree.
C10_TransformIdempotent ==
    /\ t2 # NotRun => t2 = t1
    /\ r2 # NotRun => r2 = r1

\* both were applied twice to a value the transform changes
C10_Witness ==
    /\ t2 # NotRun /\ t1.val # iv /\ t2 = t1
    /\ r2 # NotRun /\ r1.val # IdemTree /\ r2.ok
-----------------------------------------------------------------------------
(* Lexer (utils/lexer.rs).  The lexer's state is `chars`, the characters not   *)
(* yet consumed.                                                              *)

Token(kind, text) == [kind |-> kind, text |-> text]

char_is_numeric(c) == c \in {"0", "1", "2", "3", "4", "5", "6", "7", "8", "9"}
char_is_alphabetic(c) ==
    c \in {"a", "b", "e", "f", "l", "n", "r", "s", "t", "u", "x", "A", "B"}

\* the closures next_token passes to consume_while
Predicate(p, c) ==
    CASE p = "not_quote" -> c # "\""
      [] p = "is_numeric" -> char_is_numeric(c)
      [] p = "is_alphabetic" -> char_is_alphabetic(c)

\* Lexer::consume_while: the longest prefix whose characters satisfy the
\* predicate is consumed and returned
consume_while(chars, p) ==
    LET predicate(c) == Predicate(p, c)
        n == CHOOSE n \in 0..Len(chars) :
                 /\ \A i \in 1..n : predicate(chars[i])
                 /\ n = Len(chars) \/ ~predicate(chars[n + 1])
    IN  [text |-> SubSeq(chars, 1, n), chars |-> SubSeq(chars, n + 1, Len(chars))]

\* Chars::next on an exhausted iterator consumes nothing
chars_next(chars) == IF chars = <<>> THEN chars ELSE Tail(chars)

Punctuation(c) ==
    CASE c = "(" -> "OpenParen"
      [] c = ")" -> "CloseParen"
      [] c = "[" -> "OpenBracket"
      [] c = "]" -> "CloseBracket"
      [] c = "{" -> "OpenBrace"
      [] c = "}" -> "CloseBrace"
      [] c = ":" -> "Colon"
      [] c = "," -> "Comma"

RECURSIVE Lexer_next_token(_)

\* variant: a character that starts no token is consumed with the Keyword token
Lexer_next_token_skipsUnknown(chars) ==
    IF chars = <<>> THEN [tok |-> None, chars |-> chars]
    ELSE LET c == Head(chars) IN
         IF c = "\""
         THEN LET q == consume_while(Tail(chars), "not_quote")
              IN  [tok |-> Some(Token("QuotedString", Some(q.text))),
                   chars |-> chars_next(q.chars)]
         ELSE IF char_is_numeric(c)
         THEN LET q == consume_while(chars, "is_numeric")
              IN  [tok |-> Some(Token("Number", Some(q.text))), chars |-> q.chars]
         ELSE IF c \in {"(", ")", "[", "]", "{", "}", ":", ","}
         THEN [tok |-> Some(Token(Punctuation(c), None)), chars |-> Tail(chars)]
         ELSE IF IsWhitespace(c)
         THEN Lexer_next_token(Tail(chars))
         ELSE LET q == consume_while(chars, "is_alphabetic")
              IN  [tok |-> Some(Token("Keyword", Some(q.text))),
                   chars |-> IF q.text = <<>> THEN Tail(chars) ELSE q.chars]

\* Lexer::next_token: returns the Option<Token> and the lexer's characters after it
Lexer_next_token(chars) ==
    IF chars = <<>> THEN [tok |-> None, chars |-> chars]
    ELSE LET c == Head(chars) IN
         IF c = "\""
         THEN LET q == consume_while(Tail(chars), "not_quote")
              IN  [tok |-> Some(Token("QuotedString", Some(q.text))),
                   chars |-> chars_next(q.chars)]
         ELSE IF char_is_numeric(c)
         THEN LET q == consume_while(chars, "is_numeric")
              IN  [tok |-> Some(Token("Number", Some(q.text))), chars |-> q.chars]
         ELSE IF c \in {"(", ")", "[", "]", "{", "}", ":", ","}
         THEN [tok |-> Some(Token(Punctuation(c), None)), chars |-> Tail(chars)]
         ELSE IF IsWhitespace(c)
         THEN Lexer_next_token(Tail(chars))
         ELSE LET q == consume_while(chars, "is_alphabetic")
              IN  [tok |-> Some(Token("Keyword", Some(q.text))), chars |-> q.chars]

-----------------------------------------------------------------------------
(* Parser (utils/parser.rs).  The parser's state is [cur, chars, n]: the      *)
(* current_token, its lexer, and the number of next_token calls made so far   *)
(* (a history counter).  Each parse_* returns [res, st]: the Result and the   *)
(* parser's state after it.                                                   *)

Parser_new(lexer) == [cur |-> None, chars |-> lexer, n |-> 0]

\* Parser::next_token
Parser_next_token(st) ==
    LET t == Lexer_next_token(st.chars)
    IN  [cur |-> t.tok, chars |-> t.chars, n |-> st.n + 1]

Ret(res, st) == [res |-> res, st |-> st]

ParseError(kind, tok) == [kind |-> kind, tok |-> tok]

\* variant: any token is taken for the expected one
IsKind_anyToken(st, kind) == st.cur.some

IsKind(st, kind) == st.cur.some /\ st.cur.v.kind = kind

\* variant: the last digit alone gives the value
parse_f64_lastDigit(text) ==
    IF text = <<>> THEN 0
    ELSE Scale * (CHOOSE d \in 0..9 :
                      <<"0", "1", "2", "3", "4", "5", "6", "7", "8", "9">>[d + 1] = text[Len(text)])

\* str::parse::<f64> of a digit run
RECURSIVE parse_f64(_)
parse_f64(text) ==
    IF text = <<>> THEN 0
    ELSE 10 * parse_f64(SubSeq(text, 1, Len(text) - 1))
         + Scale * (CHOOSE d \in 0..9 :
                        <<"0", "1", "2", "3", "4", "5", "6", "7", "8", "9">>[d + 1] = text[Len(text)])

RECURSIVE parse_value(_), parse_object(_), parse_array(_), ObjectLoop(_, _), ArrayLoop(_, _)

\* variant: one more token is read after an unknown keyword
parse_value_readsOn(st) ==
    IF ~st.cur.some THEN Ret(Err(ParseError("UnexpectedEndOfInput", None)), st)
    ELSE LET token == st.cur.v IN
      CASE token.kind = "OpenBrace" -> parse_object(st)
        [] token.kind = "OpenBracket" -> parse_array(st)
        [] token.kind = "QuotedString" ->
              Ret(Ok(JString(token.text.v)), Parser_next_token(st))
        [] token.kind = "Number" ->
              Ret(Ok(JNumber(parse_f64(token.text.v))), Parser_next_token(st))
        [] token.kind = "Keyword" ->
              LET value == token.text.v
                  st2 == Parser_next_token(st)
              IN  CASE value = <<"t", "r", "u", "e">> -> Ret(Ok(JBoolean(TRUE)), st2)
                    [] value = <<"f", "a", "l", "s", "e">> -> Ret(Ok(JBoolean(FALSE)), st2)
                    [] value = <<"n", "u", "l", "l">> -> Ret(Ok(JNull), st2)
                    [] OTHER -> Ret(Err(ParseError("UnknownKeyword", st.cur)),
                                    Parser_next_token(st2))
        [] OTHER -> Ret(Err(ParseError("UnexpectedToken", st.cur)), st)

parse_value(st) ==
    IF ~st.cur.some THEN Ret(Err(ParseError("UnexpectedEndOfInput", None)), st)
    ELSE LET token == st.cur.v IN
      CASE token.kind = "OpenBrace" -> parse_object(st)
        [] token.kind = "OpenBracket" -> parse_array(st)
        [] token.kind = "QuotedString" ->
              Ret(Ok(JString(token.text.v)), Parser_next_token(st))
        [] token.kind = "Number" ->
              Ret(Ok(JNumber(parse_f64(token.text.v))), Parser_next_token(st))
        [] token.kind = "Keyword" ->
              LET value == token.text.v
                  st2 == Parser_next_token(st)
              IN  CASE value = <<"t", "r", "u", "e">> -> Ret(Ok(JBoolean(TRUE)), st2)
                    [] value = <<"f", "a", "l", "s", "e">> -> Ret(Ok(JBoolean(FALSE)), st2)
                    [] value = <<"n", "u", "l", "l">> -> Ret(Ok(JNull), st2)
                    [] OTHER -> Ret(Err(ParseError("UnknownKeyword", st.cur)), st2)
        [] OTHER -> Ret(Err(ParseError("UnexpectedToken", st.cur)), st)

\* variant: at the end of the input the entries read so far are returned
ObjectLoop_okAtEnd(st, object) ==
    IF ~st.cur.some THEN Ret(Ok(JObject(object)), st)
    ELSE IF st.cur.v.kind = "CloseBrace" THEN Ret(Ok(JObject(object)), Parser_next_token(st))
    ELSE IF st.cur.v.kind # "QuotedString" THEN Ret(Err(ParseError("UnexpectedToken", st.cur)), st)
    ELSE LET key == st.cur.v.text.v
             st2 == Parser_next_token(st)
         IN  IF ~IsKind(st2, "Colon") THEN Ret(Err(ParseError("ExpectedColon", None)), st2)
             ELSE LET v == parse_value(Parser_next_token(st2))
                  IN  IF ~v.res.ok THEN v
                      ELSE LET object2 == OrderedMap_insert(object, key, v.res.val)
                           IN  IF IsKind(v.st, "Comma")
                               THEN ObjectLoop(Parser_next_token(v.st), object2)
                               ELSE IF IsKind(v.st, "CloseBrace")
                               THEN ObjectLoop(v.st, object2)
                               ELSE Ret(Err(ParseError("ExpectedCommaOrBrace", None)), v.st)

\* the `while let Some(ref token) = self.current_token` loop of parse_object
ObjectLoop(st, object) ==
    IF ~st.cur.some THEN Ret(Err(ParseError("UnexpectedEndOfInput", None)), st)
    ELSE IF st.cur.v.kind = "CloseBrace" THEN Ret(Ok(JObject(object)), Parser_next_token(st))
    ELSE IF st.cur.v.kind # "QuotedString" THEN Ret(Err(ParseError("UnexpectedToken", st.cur)), st)
    ELSE LET key == st.cur.v.text.v
             st2 == Parser_next_token(st)
         IN  IF ~IsKind(st2, "Colon") THEN Ret(Err(ParseError("ExpectedColon", None)), st2)
             ELSE LET v == parse_value(Parser_next_token(st2))
                  IN  IF ~v.res.ok THEN v
                      ELSE LET object2 == OrderedMap_insert(object, key, v.res.val)
                           IN  IF IsKind(v.st, "Comma")
                               THEN ObjectLoop(Parser_next_token(v.st), object2)
                               ELSE IF IsKind(v.st, "CloseBrace")
                               THEN ObjectLoop(v.st, object2)
                               ELSE Ret(Err(ParseError("ExpectedCommaOrBrace", None)), v.st)

\* parse_object: the current token is dropped, whatever it is, and the entries follow
parse_object(st) == ObjectLoop(Parser_next_token(st), OrderedMap_new)

\* the `while let Some(ref token) = self.current_token` loop of parse_array
ArrayLoop(st, array) ==
    IF ~st.cur.some THEN Ret(Err(ParseError("UnexpectedEndOfInput", None)), st)
    ELSE IF st.cur.v.kind = "CloseBracket" THEN Ret(Ok(JArray(array)), Parser_next_token(st))
    ELSE LET v == parse_value(st)
         IN  IF ~v.res.ok THEN v
             ELSE LET array2 == Append(array, v.res.val)
                  IN  IF IsKind(v.st, "Comma")
                      THEN ArrayLoop(Parser_next_token(v.st), array2)
                      ELSE IF IsKind(v.st, "CloseBracket")
                      THEN ArrayLoop(v.st, array2)
                      ELSE Ret(Err(ParseError("ExpectedCommaOrBracket", None)), v.st)

parse_array(st) == ArrayLoop(Parser_next_token(st), <<>>)

\* Parser::parse
Parser_parse(st) == parse_object(Parser_next_token(st))

\* JSONParser::from(input)
JSONParser_from(text) == Parser_parse(Parser_new(text)).res

-----------------------------------------------------------------------------
(* Specification SpecParse: a text is put together and parsed *)

Lexemes == <<
    <<"{">>, <<"}">>, <<"[">>, <<"]">>, <<":">>, <<",">>, <<"(">>,
    <<"\"", "a", "\"">>, <<"1">>, <<"t", "r", "u", "e">>
    >>

RECURSIVE Concat(_, _)
Concat(ls, i) == IF i > Len(ls) THEN <<>> ELSE Lexemes[ls[i]] \o Concat(ls, i + 1)

InitParse ==
    /\ \E n \in 0..MaxInput : \E ls \in [1..n -> 1..Len(Lexemes)] : input = Concat(ls, 1)
    /\ parsed = NotRun /\ parser = NotRun /\ doc = NotRun /\ edit = NotRun
    /\ IdleLex /\ IdleMap
    /\ IdleSchema /\ IdleRule /\ IdleBuilder /\ IdleIdem

\* JSONParser::from(input)
Parse ==
    /\ parsed = NotRun
    /\ parsed' = JSONParser_from(input)
    /\ parser' = Parser_parse(Parser_new(input)).st
    /\ UNCHANGED <<input, doc, edit, lexVars, mapVars, schemaVars, ruleVars, builderVars, idemVars>>

NextParse == Parse

SpecParse == InitParse /\ [][NextParse]_vars

FirstToken == Lexer_next_token(input).tok

\* C1: a text whose first token is not '{' is not parsed: parse returns an error,
\* whatever follows the token.
C1_RootMustBeObject ==
    (parsed # NotRun /\ FirstToken.some /\ FirstToken.v.kind # "OpenBrace") => ~parsed.ok

-----------------------------------------------------------------------------
(* Specification SpecMap: an OrderedMap is created and receives inserts *)

MapKeys == << <<"a">>, <<"b">>, <<"c">> >>
MapValues == <<JNull, JNumber(Whole(1)), JBoolean(TRUE)>>

InitMap ==
    /\ om = OrderedMap_new /\ inserts = <<>>
    /\ IdleText /\ IdleLex /\ IdleSchema /\ IdleRule /\ IdleBuilder /\ IdleIdem

\* om.insert(key, value)
Insert ==
    /\ Len(inserts) < MaxInserts
    /\ \E i \in 1..Len(MapKeys), j \in 1..Len(MapValues) :
          /\ om' = OrderedMap_insert(om, MapKeys[i], MapValues[j])
          /\ inserts' = Append(inserts, [key |-> MapKeys[i], value |-> MapValues[j]])
    /\ UNCHANGED <<parseVars, lexVars, schemaVars, ruleVars, builderVars, idemVars>>

NextMap == Insert

SpecMap == InitMap /\ [][NextMap]_vars

\* the keys of the insert calls, each at its first occurrence
RECURSIVE FirstInsertions(_)
FirstInsertions(calls_) ==
    IF calls_ = <<>> THEN <<>>
    ELSE LET init == SubSeq(calls_, 1, Len(calls_) - 1)
             last == calls_[Len(calls_)]
         IN  IF \E i \in 1..Len(init) : init[i].key = last.key
             THEN FirstInsertions(init)
             ELSE Append(FirstInsertions(init), last.key)

\* the value of the last insert call for the key
LastInserted(key) ==
    LET i == CHOOSE i \in 1..Len(inserts) :
                 /\ inserts[i].key = key
                 /\ \A j \in (i + 1)..Len(inserts) : inserts[j].key # key
    IN  inserts[i].value

\* C11: after any sequence of inserts on a new OrderedMap the order list has no
\* duplicate key, its keys are exactly the keys of the map, it lists the keys in
\* the order of their first insertion (so inserting a present key neither moves
\* it nor lengthens the list), and each key holds the value of its last insert.
C11_OrderedMapInvariant ==
    /\ \A i, j \in 1..Len(om.order) : om.order[i] = om.order[j] => i = j
    /\ {om.order[i] : i \in 1..Len(om.order)} = DOMAIN om.map
    /\ om.order = FirstInsertions(inserts)
    /\ \A k \in DOMAIN om.map : om.map[k] = LastInserted(k)

\* a key was inserted, then another key, then the first key again with another value
C11_Witness ==
    /\ Len(inserts) = 3
    /\ inserts[1].key = inserts[3].key /\ inserts[2].key # inserts[1].key
    /\ inserts[1].value # inserts[3].value
    /\ Len(om.order) = 2

-----------------------------------------------------------------------------
(* Specification SpecDoc: the text of a value tree is written, changed in one *)
(* place, and parsed.  The text is kept as its lexemes until it is joined.    *)

DigitChars == <<"0", "1", "2", "3", "4", "5", "6", "7", "8", "9">>

\* the digit run of a whole number
RECURSIVE NumText(_)
NumText(k) ==
    IF k < 10 THEN <<DigitChars[k + 1]>>
    ELSE NumText(k \div 10) \o <<DigitChars[(k % 10) + 1]>>

Quoted(s) == <<"\"">> \o s \o <<"\"">>

\* the lexemes of the JSON text of a value, in source order
RECURSIVE TokensOf(_), ItemTokens(_, _), EntryTokens(_, _)
TokensOf(value) ==
    CASE value.type = "Number" -> <<NumText(value.n \div Scale)>>
      [] value.type = "String" -> <<Quoted(value.s)>>
      [] value.type = "Boolean" ->
            IF value.b THEN << <<"t", "r", "u", "e">> >> ELSE << <<"f", "a", "l", "s", "e">> >>
      [] value.type = "Null" -> << <<"n", "u", "l", "l">> >>
      [] value.type = "Array" -> << <<"[">> >> \o ItemTokens(value.items, 1) \o << <<"]">> >>
      [] value.type = "Object" -> << <<"{">> >> \o EntryTokens(value.obj, 1) \o << <<"}">> >>

ItemTokens(items, i) ==
    IF i > Len(items) THEN <<>>
    ELSE (IF i > 1 THEN << <<",">> >> ELSE <<>>)
         \o TokensOf(items[i]) \o ItemTokens(items, i + 1)

EntryTokens(m, i) ==
    IF i > Len(m.order) THEN <<>>
    ELSE (IF i > 1 THEN << <<",">> >> ELSE <<>>)
         \o <<Quoted(m.order[i]), <<":">> >>
         \o TokensOf(m.map[m.order[i]]) \o EntryTokens(m, i + 1)

\* the lexemes joined into one text, `sep` between two lexemes
RECURSIVE Join(_, _)
Join(lexemes, sep) ==
    IF lexemes = <<>> THEN <<>>
    ELSE IF Len(lexemes) = 1 THEN lexemes[1]
    ELSE lexemes[1] \o sep \o Join(Tail(lexemes), sep)

\* an object written by the caller: its keys in textual order, and their values
Obj(keys, values) ==
    JObject([order |-> keys,
             map |-> [k \in {keys[i] : i \in 1..Len(keys)} |->
                        values[CHOOSE i \in 1..Len(keys) : keys[i] = k]]])

DocLeaves == <<
    JNumber(Whole(1)), JNumber(Whole(12)), JString(<<"a", " ", "b">>),
    JBoolean(TRUE), JBoolean(FALSE), JNull
    >>

DocNested == <<
    JArray(<<>>), JArray(<<JNumber(Whole(1))>>), JArray(<<JNumber(Whole(1)), JNull>>),
    JArray(<<JArray(<<JBoolean(TRUE)>>)>>),
    Obj(<<>>, <<>>), Obj(<< <<"a">> >>, <<JNull>>),
    Obj(<< <<"b">> >>, <<JArray(<<JNumber(Whole(1))>>)>>)
    >>

DocValues == DocLeaves \o DocNested

DocKeys == {<<>>, << <<"a">> >>, << <<"b">> >>, << <<"a">>, <<"b">> >>, << <<"b">>, <<"a">> >>}

\* the root objects: distinct keys, in either order
Docs ==
    UNION {{Obj(ks, [i \in 1..Len(ks) |-> DocValues[vs[i]]]) :
              vs \in [1..Len(ks) -> 1..Len(DocValues)]} : ks \in DocKeys}

Seps == << <<>>, <<" ">> >>
InsertLexemes == << <<",">>, <<"-">>, <<"}">>, <<"]">>, <<"1">> >>

Edit(kind, at, lexeme) == [kind |-> kind, at |-> at, lexeme |-> lexeme]

\* the changes made to a text of n lexemes
Edits(n) ==
    {Edit("none", 0, <<>>)}
    \cup {Edit("delete", i, <<>>) : i \in 1..n}
    \cup {Edit("truncate", i, <<>>) : i \in 0..(n - 1)}
    \cup {Edit("insert", i, InsertLexemes[x]) : i \in 1..(n + 1), x \in 1..Len(InsertLexemes)}

\* insert puts the lexeme before lexeme `at`; truncate keeps the first `at` lexemes
ApplyEdit(lexemes, e) ==
    CASE e.kind = "none" -> lexemes
      [] e.kind = "delete" ->
            SubSeq(lexemes, 1, e.at - 1) \o SubSeq(lexemes, e.at + 1, Len(lexemes))
      [] e.kind = "truncate" -> SubSeq(lexemes, 1, e.at)
      [] e.kind = "insert" ->
            SubSeq(lexemes, 1, e.at - 1) \o <<e.lexeme>> \o SubSeq(lexemes, e.at, Len(lexemes))

InitDoc ==
    /\ \E d \in Docs : \E e \in Edits(Len(TokensOf(d))) : \E s \in 1..Len(Seps) :
          /\ doc = d
          /\ edit = [kind |-> e.kind, at |-> e.at, lexeme |-> e.lexeme, sep |-> Seps[s]]
          /\ input = Join(ApplyEdit(TokensOf(d), e), Seps[s])
    /\ parsed = NotRun /\ parser = NotRun
    /\ IdleLex /\ IdleMap
    /\ IdleSchema /\ IdleRule /\ IdleBuilder /\ IdleIdem

NextDoc == Parse

SpecDoc == InitDoc /\ [][NextDoc]_vars

\* the lexemes of the unchanged text, and of the text that is parsed
Written == TokensOf(doc)
Given == ApplyEdit(Written, edit)

\* C12: the text of an object with distinct keys parses to that object: the keys
\* in textual order, and each value equal to its literal (digit runs Number,
\* quoted strings String, true/false Boolean, null Null, arrays and objects nested).
C12_ParseReturnsTheTree ==
    (parsed # NotRun /\ edit.kind = "none") => parsed = Ok(doc)

\* two keys written b before a, one of them holding a two-element array
C12_Witness ==
    /\ parsed # NotRun /\ edit.kind = "none" /\ parsed = Ok(doc)
    /\ doc.obj.order = << <<"b">>, <<"a">> >>
    /\ doc.obj.map[<<"a">>] = JArray(<<JNumber(Whole(1)), JNull>>)
    /\ doc.obj.map[<<"b">>] = JNumber(Whole(12))

\* a ',' is written after the last entry of an object or the last element of an
\* array, directly before its closing '}' or ']'
TrailingComma ==
    /\ edit.kind = "insert" /\ edit.lexeme = <<",">>
    /\ edit.at \in 2..Len(Written)
    /\ Written[edit.at] \in {<<"}">>, <<"]">>}
    /\ Written[edit.at - 1] \notin {<<"{">>, <<"[">>}

\* C13: a ',' must be followed by another entry (in an object) or another value
\* (in an array): a text with a trailing comma directly before '}' or ']' is
\* not parsed.
C13_TrailingCommaFails ==
    (parsed # NotRun /\ TrailingComma) => ~parsed.ok

\* the characters left after k calls of Lexer::next_token
RECURSIVE AfterTokens(_, _)
AfterTokens(chars, k) ==
    IF k = 0 THEN chars ELSE AfterTokens(Lexer_next_token(chars).chars, k - 1)

\* the text up to the end of its k-th token
TokenPrefix(text, k) == SubSeq(text, 1, Len(text) - Len(AfterTokens(text, k)))

\* parse returns after reading the closing '}' of the root and one token more:
\* the closing '}' is token number parser.n - 1 of the input
RootClose == parser.n - 1

\* C14: truncated input never parses: when parse succeeds on a text, it fails on
\* every prefix of the token sequence that ends before the closing '}' of the
\* root object (the empty text and texts ending inside a nested value included).
C14_TruncatedInputFails ==
    (parsed # NotRun /\ parsed.ok) =>
        \A k \in 0..(RootClose - 1) : ~JSONParser_from(TokenPrefix(input, k)).ok

\* a text of ten tokens or more, holding a nested array or object, was parsed
C14_Witness ==
    /\ parsed # NotRun /\ parsed.ok /\ RootClose >= 10
    /\ \E i \in 2..(RootClose - 1) : Given[i] \in {<<"[">>, <<"{">>}

\* lexeme i of the written text is the key of an object entry
KeyAt(i) == i \in 1..(Len(Written) - 1) /\ Written[i + 1] = <<":">>

\* the key at i is followed by something else than ':': its ':' is deleted, the
\* text ends after the key, or another lexeme is put between the key and its ':'
BrokenKey(i) ==
    /\ KeyAt(i)
    /\ \/ edit.kind = "delete" /\ edit.at = i + 1
       \/ edit.kind = "truncate" /\ edit.at = i
       \/ edit.kind = "insert" /\ edit.at = i + 1

\* C15: in an object at any depth, a key followed by a token other than ':' or
\* by the end of the input makes parse fail with the "Expected ':'" error, and
\* the parser reads nothing past the token after the key: no value is parsed.
C15_MissingColonFails ==
    \A i \in 1..Len(Written) :
        (parsed # NotRun /\ BrokenKey(i)) =>
            /\ parsed = Err(ParseError("ExpectedColon", None))
            /\ parser.n = i + 1

\* the key of a nested object lost its ':'
C15_Witness ==
    /\ parsed = Err(ParseError("ExpectedColon", None))
    /\ \E i \in 4..Len(Written) :
          BrokenKey(i) /\ Written[i - 1] = <<"{">> /\ edit.kind = "delete"

-----------------------------------------------------------------------------
(* Specification SpecLex: Lexer::lex on a short text, one loop iteration a step *)

LexChars == <<"-", ".", "a", "1", " ", "{", "\"">>

InitLex ==
    /\ \E n \in 0..MaxText : \E cs \in [1..n -> 1..Len(LexChars)] :
          lchars = [i \in 1..n |-> LexChars[cs[i]]]
    /\ tokens = <<>> /\ lexdone = FALSE
    /\ IdleText /\ IdleMap /\ IdleSchema /\ IdleRule /\ IdleBuilder /\ IdleIdem

\* one iteration of `while let Some(token) = self.next_token()`: the token is
\* pushed, or the loop ends and lex returns
LexStep ==
    /\ ~lexdone /\ Len(tokens) < MaxTokens
    /\ LET t == Lexer_next_token(lchars)
       IN  /\ lchars' = t.chars
           /\ tokens' = IF t.tok.some THEN Append(tokens, t.tok.v) ELSE tokens
           /\ lexdone' = ~t.tok.some
    /\ UNCHANGED <<parseVars, mapVars, schemaVars, ruleVars, builderVars, idemVars>>

NextLex == LexStep

SpecLex == InitLex /\ [][NextLex]_vars

\* the character starts no token and is not whitespace
Unrecognized(c) ==
    /\ c # "\"" /\ ~char_is_numeric(c)
    /\ c \notin {"(", ")", "[", "]", "{", "}", ":", ","}
    /\ ~IsWhitespace(c) /\ ~char_is_alphabetic(c)

Stuck == lchars # <<>> /\ Unrecognized(Head(lchars))

\* C16: with the cursor at a character that is not '"', numeric, punctuation,
\* whitespace or alphabetic, next_token returns a Keyword token with empty text
\* and consumes nothing: the cursor stays where it is, every later call returns
\* the same token, and lex does not reach the end of the input.
C16_TokenizerNonProgress ==
    [][Stuck => /\ lchars' = lchars
                /\ tokens' = Append(tokens, Token("Keyword", Some(<<>>)))
                /\ ~lexdone']_vars

\* a character was consumed, then the same empty Keyword was returned twice
C16_Witness ==
    /\ Stuck /\ ~lexdone /\ Len(tokens) >= 3
    /\ tokens[Len(tokens)] = Token("Keyword", Some(<<>>))
    /\ tokens[Len(tokens) - 1] = Token("Keyword", Some(<<>>))
    /\ tokens[1] # Token("Keyword", Some(<<>>))

\* C19: parse returns Ok only when the whole input has been consumed: no token
\* is left after the closing '}' of the root object.
C19_WholeInputConsumed ==
    (parsed # NotRun /\ parsed.ok) => ~parser.cur.some

\* the tokens of a text up to its end, or up to the first character on which
\* the tokenizer makes no progress
RECURSIVE CountTokens(_)
CountTokens(chars) ==
    LET t == Lexer_next_token(chars)
    IN  IF ~t.tok.some \/ t.chars = chars THEN 0 ELSE 1 + CountTokens(t.chars)

\* C20: parse terminates on every input, also on one holding a character on
\* which the tokenizer makes no progress: it returns after at most two
\* next_token calls more than the input has tokens before its end or before
\* that character.
C20_ParseTerminates ==
    parsed # NotRun => parser.n <= CountTokens(input) + 2

\* parse failed on a text in which '-' replaces a value reached by the parser
C20_Witness ==
    /\ parsed # NotRun /\ ~parsed.ok
    /\ parser.cur = Some(Token("Keyword", Some(<<>>)))
    /\ parsed.err.kind = "UnknownKeyword"
    /\ parser.n = CountTokens(input) + 2
====
